---- MODULE Spec2Model ----
(***************************************************************************)
(* Pollaroo frontend: the Session Store (store/auth.ts and its copies) and *)
(* the API Gateway Client (lib/api.ts and its copy).                       *)
(*                                                                         *)
(* The runtime is the single-threaded browser event loop.  A handler runs  *)
(* without interruption up to its await of the network and, once the HTTP  *)
(* call has resolved, from there to its end (the continuations of          *)
(* request, of the ApiClient method and of the store action are chained    *)
(* microtasks).  Every asynchronous operation is therefore two steps,      *)
(* XStart and XSettle, and operations in flight interleave freely between  *)
(* the two.                                                                *)
(*                                                                         *)
(* The repository holds several copies of the two files.  The copies that  *)
(* differ in behaviour are modelled side by side and one of each is        *)
(* picked when the page is loaded:                                         *)
(*   store:  "auth_ts"  = frontend/src/store/auth.ts (unnamed/part_000 is  *)
(*                        the same code in a browser)                      *)
(*           "part_001" = unnamed/part_001 (loadUser without token check)  *)
(*   client: "api_ts"         = frontend/src/lib/api.ts                    *)
(*           "validations_ts" = the ApiClient in frontend/src/lib/         *)
(*                              validations.ts (401 handling)              *)
(***************************************************************************)
EXTENDS Integers, Sequences, FiniteSets, TLC

\* ---------------------------------------------------------------- bounds
MaxRequests == 2      \* HTTP requests issued in one run
MaxInFlight == 2      \* requests awaiting their response at one time
MaxOps == 3           \* calls in one run of the token methods
MaxListeners == 2     \* components that mount useAuth

\* ---------------------------------------------------------------- values
Null == "null"
Users == {"alice", "bob"}
Tokens == {"tok1", "tok2"}
IssuedTokens == {"tok2"}     \* tokens the service hands out in this run
Listeners == 1..MaxListeners

StoreVariants == {"auth_ts", "part_001"}
ApiVariants == {"api_ts", "validations_ts"}

\* a || b of JavaScript on values that are a string or absent
Or(a, b) == IF a # Null THEN a ELSE b

\* ------------------------------------------------------- server outcomes
\* What the remote service (opaque to this repository) can answer.  A 2xx
\* body carries user and tokens.access (either may be missing); for the
\* profile endpoints body.user is the returned user representation and
\* Null is a falsy body.  A non-2xx body carries message, error, detail.
NoBody == [user |-> Null, access |-> Null, message |-> Null, error |-> Null, detail |-> Null]

OkOutcomes ==
    {[kind |-> "http", status |-> 200,
      body |-> [NoBody EXCEPT !.user = u, !.access = t]] :
        u \in Users \cup {Null}, t \in IssuedTokens \cup {Null}}

ErrorStatuses == {400, 401, 500}

\* the error bodies told apart by the `||` chains of the two request primitives
ErrBodies ==
    {NoBody,
     [NoBody EXCEPT !.error = "err"],
     [NoBody EXCEPT !.message = "msg", !.error = "err"],
     [NoBody EXCEPT !.detail = "det"]}

ErrOutcomes ==
    {[kind |-> "http", status |-> s, body |-> b] : s \in ErrorStatuses, b \in ErrBodies}

\* fetch rejects with TypeError("Failed to fetch"); response.json() throws
\* a SyntaxError on an unparsable body
ThrowOutcomes ==
    {[kind |-> k, status |-> 0, body |-> NoBody] : k \in {"fetch_typeerror", "json_error"}}

Outcomes == OkOutcomes \cup ErrOutcomes \cup ThrowOutcomes
NoOutcome == [kind |-> "none", status |-> 0, body |-> NoBody]

\* ------------------------------------------------------------ ApiClient
\* The client's token together with localStorage (the page runs in a
\* browser), and the calls made on them in program order.
Ev(e) == [e |-> e, l |-> 0]
Client(tok, sto) == [token |-> tok, storage |-> sto, log |-> <<>>]

\* a setToken that keeps the token in memory only
setTokenMemoryOnly(c, t) ==
    [token |-> t, storage |-> c.storage, log |-> Append(c.log, Ev("setToken"))]

setToken(c, t) ==
    [token |-> t,
     storage |-> [c.storage EXCEPT !.access_token = t],
     log |-> Append(c.log, Ev("setToken"))]

\* a clearToken that forgets localStorage
clearTokenMemoryOnly(c) ==
    [token |-> Null, storage |-> c.storage, log |-> Append(c.log, Ev("clearToken"))]

clearToken(c) ==
    [token |-> Null,
     storage |-> [c.storage EXCEPT !.access_token = Null],
     log |-> Append(c.log, Ev("clearToken"))]

DataResult(b) == [data |-> b, hasData |-> TRUE, error |-> Null, clear |-> FALSE]
ErrorResult(m, c) == [data |-> NoBody, hasData |-> FALSE, error |-> m, clear |-> c]

StatusText(s) ==
    CASE s = 400 -> "Request failed with status 400"
      [] s = 401 -> "Request failed with status 401"
      [] s = 404 -> "Request failed with status 404"
      [] OTHER -> "Request failed with status 5xx"

\* a request primitive without the last operand of its `||` chain
RequestApiTsNoFallback(o) ==
    IF o.kind # "http" THEN ErrorResult("Network error occurred", FALSE)
    ELSE IF o.status \notin 200..299
         THEN ErrorResult(Or(o.body.message, o.body.error), FALSE)
         ELSE DataResult(o.body)

\* request of lib/api.ts: result of the code after the await of fetch.
\* clear tells whether the primitive called clearToken.
RequestApiTs(o) ==
    IF o.kind # "http" THEN ErrorResult("Network error occurred", FALSE)
    ELSE IF o.status \notin 200..299
         THEN ErrorResult(Or(o.body.message, Or(o.body.error, "An error occurred")), FALSE)
         ELSE DataResult(o.body)

\* request of the ApiClient in lib/validations.ts
RequestValidationsTs(o) ==
    IF o.kind = "fetch_typeerror"
    THEN ErrorResult("Cannot connect to server. Please check if the backend server is running.", FALSE)
    ELSE IF o.kind = "json_error" THEN ErrorResult("Network error: Unexpected token", FALSE)
    ELSE IF o.status \notin 200..299
         THEN IF o.status = 401
              THEN ErrorResult("Authentication expired. Please log in again.", TRUE)
              ELSE IF o.status >= 500
                   THEN ErrorResult("Server error. Please try again later.", FALSE)
                   ELSE IF o.status = 404
                        THEN ErrorResult("Endpoint not found.", FALSE)
                        ELSE ErrorResult(Or(o.body.message, Or(o.body.error,
                                            Or(o.body.detail, StatusText(o.status)))), FALSE)
         ELSE DataResult(o.body)

Request(v, o) == IF v = "api_ts" THEN RequestApiTs(o) ELSE RequestValidationsTs(o)

\* the client after the request primitive has returned r
AfterRequest(c, r) == IF r.clear THEN clearToken(c) ELSE c

\* a login endpoint method that returns the result of request as it is
ApiLoginNotStoring(c, r) == c

\* ApiClient.login after its await: stores the access token of the response
ApiLogin(c, r) ==
    IF r.hasData /\ r.data.access # Null THEN setToken(c, r.data.access) ELSE c

\* ApiClient.register returns the result of request as it is
ApiRegister(c, r) == c

\* a logout endpoint method that clears the token only when the server agreed
ApiLogoutOnSuccessOnly(c, r) == IF r.hasData THEN clearToken(c) ELSE c

\* ApiClient.logout after its await
ApiLogout(c, r) == clearToken(c)

\* getProfile, updateProfile and the poll endpoints return request's result
ApiPassThrough(c, r) == c

\* `response.data` is truthy
Truthy(r, kind) ==
    r.hasData /\ (kind \in {"loadUser", "updateProfile"} => r.data.user # Null)


\* ---------------------------------------------------------------- state
VARIABLES
    storeVariant,   \* which copy of the store the page runs
    apiVariant,     \* which copy of the ApiClient the page runs
    state,          \* the AuthState snapshot of the store
    listeners,      \* the Set of listeners, in insertion order
    token,          \* apiClient.token
    storage,        \* localStorage: access_token and refresh_token
    inflight,       \* requests issued and not yet answered, oldest first
    nreq,           \* number of HTTP requests issued so far
    last,           \* the step taken last: operation, phase, answer, result
    trace,          \* effects of the step taken last, in program order
    callbacks       \* what each listener does to the Set when it is invoked

vars == <<storeVariant, apiVariant, state, listeners, token, storage,
          inflight, nreq, last, trace, callbacks>>

StoreOps == {"login", "register", "logout", "loadUser", "updateProfile"}

NoReq == [kind |-> "none", auth |-> Null, stored |-> Null]
Step(op, step, req, out, ret) ==
    [op |-> op, step |-> step, req |-> req, out |-> out, ret |-> ret]

\* --------------------------------------------------------------- notify
\* Identities of listener closures; one more than can be mounted at once,
\* so that a callback can add a listener to a full Set.
ListenerIds == 1..(MaxListeners + 1)

\* What a listener does, synchronously, when notify invokes it.  The
\* listener of useAuth calls setLocalState; a render that this triggers
\* synchronously can mount a component (listeners.add of its listener) or
\* unmount one (listeners.delete).
Render == [kind |-> "render", target |-> 0]
Behaviours ==
    {Render} \cup {[kind |-> k, target |-> t] : k \in {"add", "delete"}, t \in ListenerIds}

\* The entries of the Set while forEach walks it: a deleted entry leaves a
\* hole (0) that the walk steps over, an added value goes to the end.
Compact(es) == SelectSeq(es, LAMBDA x : x # 0)

\* an array of listeners that is spliced on delete
RunCallbackSplicing(es, cb) ==
    IF cb.kind = "delete" THEN SelectSeq(es, LAMBDA x : x # cb.target)
    ELSE IF cb.kind = "add" /\ \A j \in 1..Len(es) : es[j] # cb.target
         THEN Append(es, cb.target)
         ELSE es

\* listeners.delete(x) / listeners.add(x) called from inside a callback
RunCallback(es, cb) ==
    IF cb.kind = "delete"
    THEN [j \in 1..Len(es) |-> IF es[j] = cb.target THEN 0 ELSE es[j]]
    ELSE IF cb.kind = "add" /\ \A j \in 1..Len(es) : es[j] # cb.target
         THEN Append(es, cb.target)
         ELSE es

\* Set.prototype.forEach from entry i on: every entry that is in the Set
\* when the walk reaches it is visited, entries added meanwhile included
RECURSIVE forEachFrom(_, _, _, _)
forEachFrom(es, i, cbs, calls) ==
    IF i > Len(es) THEN [set |-> Compact(es), calls |-> calls]
    ELSE IF es[i] = 0 THEN forEachFrom(es, i + 1, cbs, calls)
    ELSE forEachFrom(RunCallback(es, cbs[es[i]]), i + 1, cbs,
                     Append(calls, [e |-> "call", l |-> es[i]]))

forEach(ls, cbs) == forEachFrom(ls, 1, cbs, <<>>)

\* a notify that walks the listeners newest first
notifyReversed(ls) == [i \in 1..Len(ls) |-> [e |-> "call", l |-> ls[Len(ls) + 1 - i]]]

\* notify: listeners.forEach(listener => listener()), a Set iterates in
\* insertion order.  The listeners of useAuth only call setLocalState.
notify(ls) == forEach(ls, [l \in ListenerIds |-> Render]).calls

\* `state = {...}` followed by notify()
Publish(ls) == <<Ev("assign")>> \o notify(ls)

\* the request primitive up to its await: the Authorization header is
\* built from this.token, then fetch is called
NewRequest(kind) == [kind |-> kind, auth |-> token, stored |-> storage.access_token]

RemoveAt(q, i) == [j \in 1..(Len(q) - 1) |-> IF j < i THEN q[j] ELSE q[j + 1]]

CanSend == nreq < MaxRequests /\ Len(inflight) < MaxInFlight

\* ---------------------------------------------------- store, first half
\* a first update that forgets `error: null`
beginKeepingError(s) == [s EXCEPT !.isLoading = TRUE]

\* login, register, updateProfile: state = {...state, isLoading: true, error: null}
beginClearingError(s) == [s EXCEPT !.isLoading = TRUE, !.error = Null]

\* logout, loadUser: state = {...state, isLoading: true}
beginLoading(s) == [s EXCEPT !.isLoading = TRUE]

\* --------------------------------------------------- store, second half
\* a login that reports its own default message on every failure
loginDoneDefaultOnly(s, r) ==
    IF Truthy(r, "login") /\ r.data.user # Null
    THEN [s EXCEPT !.user = r.data.user, !.isAuthenticated = TRUE,
                   !.isLoading = FALSE, !.error = Null]
    ELSE [s EXCEPT !.error = "Login failed", !.isLoading = FALSE]

\* login after `await apiClient.login(credentials)`
loginDone(s, r) ==
    IF Truthy(r, "login") /\ r.data.user # Null
    THEN [s EXCEPT !.user = r.data.user, !.isAuthenticated = TRUE,
                   !.isLoading = FALSE, !.error = Null]
    ELSE [s EXCEPT !.error = Or(r.error, "Login failed"), !.isLoading = FALSE]

\* a login that reports success whenever the server answered 2xx
loginReturnAnyData(r) == r.hasData

loginReturn(r) == Truthy(r, "login") /\ r.data.user # Null

\* a register whose failure branches reset the session
registerDoneLoggingOut(s, r) ==
    IF Truthy(r, "register") /\ r.data.user # Null
    THEN [s EXCEPT !.user = r.data.user, !.isAuthenticated = TRUE,
                   !.isLoading = FALSE, !.error = Null]
    ELSE [s EXCEPT !.user = Null, !.isAuthenticated = FALSE,
                   !.error = Or(r.error, "Registration failed"), !.isLoading = FALSE]

\* register after `await apiClient.register(userData)`
registerDone(s, r) ==
    IF Truthy(r, "register") /\ r.data.user # Null
    THEN [s EXCEPT !.user = r.data.user, !.isAuthenticated = TRUE,
                   !.isLoading = FALSE, !.error = Null]
    ELSE [s EXCEPT !.error = Or(r.error, "Registration failed"), !.isLoading = FALSE]

registerReturn(r) == Truthy(r, "register") /\ r.data.user # Null

\* a logout that forgets `error: null`
logoutDoneKeepsError(s) ==
    [s EXCEPT !.user = Null, !.isAuthenticated = FALSE, !.isLoading = FALSE]

\* logout after the try/catch around `await apiClient.logout()`
logoutDone(s) ==
    [s EXCEPT !.user = Null, !.isAuthenticated = FALSE,
              !.isLoading = FALSE, !.error = Null]

\* loadUser of store/auth.ts without a token in localStorage
loadUserNoToken(s) ==
    [s EXCEPT !.user = Null, !.isAuthenticated = FALSE, !.isLoading = FALSE]

\* a loadUser whose failure branch forgets `isLoading: false`
loadUserDoneStaysLoading(s, r) ==
    IF Truthy(r, "loadUser")
    THEN [s EXCEPT !.user = r.data.user, !.isAuthenticated = TRUE,
                   !.isLoading = FALSE, !.error = Null]
    ELSE [s EXCEPT !.user = Null, !.isAuthenticated = FALSE]

\* loadUser of store/auth.ts after `await apiClient.getProfile()`
loadUserDone(s, r) ==
    IF Truthy(r, "loadUser")
    THEN [s EXCEPT !.user = r.data.user, !.isAuthenticated = TRUE,
                   !.isLoading = FALSE, !.error = Null]
    ELSE [s EXCEPT !.user = Null, !.isAuthenticated = FALSE, !.isLoading = FALSE]

\* ... and what it does to localStorage: both keys removed on failure
loadUserCleanup(c, r) ==
    IF Truthy(r, "loadUser") THEN c
    ELSE [c EXCEPT !.storage = [access_token |-> Null, refresh_token |-> Null],
                   !.log = c.log \o <<Ev("removeItem"), Ev("removeItem")>>]

\* loadUser of unnamed/part_001 after the await: error is kept on success,
\* localStorage is not touched
loadUserDone001(s, r) ==
    IF Truthy(r, "loadUser")
    THEN [s EXCEPT !.user = r.data.user, !.isAuthenticated = TRUE, !.isLoading = FALSE]
    ELSE [s EXCEPT !.user = Null, !.isAuthenticated = FALSE, !.isLoading = FALSE]

\* an updateProfile whose failure branch forgets `isLoading: false`
updateProfileDoneStaysLoading(s, r) ==
    IF Truthy(r, "updateProfile")
    THEN [s EXCEPT !.user = r.data.user, !.isLoading = FALSE, !.error = Null]
    ELSE [s EXCEPT !.error = Or(r.error, "Update failed")]

\* updateProfile after `await apiClient.updateProfile(userData)`
updateProfileDone(s, r) ==
    IF Truthy(r, "updateProfile")
    THEN [s EXCEPT !.user = r.data.user, !.isLoading = FALSE, !.error = Null]
    ELSE [s EXCEPT !.error = Or(r.error, "Update failed"), !.isLoading = FALSE]

\* an updateProfile that reports success whenever the server answered 2xx
updateProfileReturnAnyData(r) == r.hasData

updateProfileReturn(r) == Truthy(r, "updateProfile")

\* a clearError that resets the whole snapshot
clearErrorDoneResettingSession(s) ==
    [s EXCEPT !.error = Null, !.user = Null, !.isAuthenticated = FALSE]

\* a clearError that does nothing while an operation is loading
clearErrorDoneWhenIdle(s) == IF s.isLoading THEN s ELSE [s EXCEPT !.error = Null]

\* a clearError that also resets the loading flag
clearErrorDoneResetsLoading(s) == [s EXCEPT !.error = Null, !.isLoading = FALSE]

\* clearError: state = {...state, error: null}
clearErrorDone(s) == [s EXCEPT !.error = Null]

Bool(b) == IF b THEN "true" ELSE "false"

\* ----------------------------------------------------------------- Init
\* A page load: the module-level state of the store, the empty listener
\* Set, and the ApiClient constructed in the browser from localStorage,
\* which a previous visit may have left with tokens.
Init ==
    /\ storeVariant \in StoreVariants
    /\ apiVariant \in ApiVariants
    /\ state = [user |-> Null, isAuthenticated |-> FALSE, isLoading |-> FALSE, error |-> Null]
    /\ listeners = <<>>
    /\ storage \in {[access_token |-> Null, refresh_token |-> Null],
                    [access_token |-> "tok1", refresh_token |-> "ref1"]}
    /\ token = storage.access_token
    /\ inflight = <<>>
    /\ nreq = 0
    /\ last = Step("none", "init", NoReq, NoOutcome, "void")
    /\ trace = <<>>
    /\ callbacks = [l \in ListenerIds |-> Render]

\* -------------------------------------------------------------- useAuth
\* the effect of useAuth on mount: listeners.add(listener)
Subscribe(l) ==
    /\ \A i \in 1..Len(listeners) : listeners[i] # l
    /\ listeners' = Append(listeners, l)
    /\ last' = Step("subscribe", "sync", NoReq, NoOutcome, "void")
    /\ trace' = <<>>
    /\ UNCHANGED <<storeVariant, apiVariant, callbacks, state, token, storage, inflight, nreq>>

\* the cleanup of the effect on unmount: listeners.delete(listener)
Unsubscribe(l) ==
    /\ \E i \in 1..Len(listeners) :
          /\ listeners[i] = l
          /\ listeners' = RemoveAt(listeners, i)
    /\ last' = Step("unsubscribe", "sync", NoReq, NoOutcome, "void")
    /\ trace' = <<>>
    /\ UNCHANGED <<storeVariant, apiVariant, callbacks, state, token, storage, inflight, nreq>>

\* ------------------------------------------------- operations: first half
\* a handler from its call to its await of fetch
StartOp(kind, s1) ==
    /\ state' = s1
    /\ inflight' = Append(inflight, NewRequest(kind))
    /\ nreq' = nreq + 1
    /\ last' = Step(kind, "start", NewRequest(kind), NoOutcome, "void")
    /\ trace' = Publish(listeners) \o <<Ev("fetch")>>
    /\ UNCHANGED <<storeVariant, apiVariant, callbacks, listeners, token, storage>>

LoginStart ==
    /\ CanSend
    /\ StartOp("login", beginClearingError(state))

RegisterStart ==
    /\ CanSend
    /\ StartOp("register", beginClearingError(state))

UpdateProfileStart ==
    /\ CanSend
    /\ StartOp("updateProfile", beginClearingError(state))

LogoutStart ==
    /\ CanSend
    /\ StartOp("logout", beginLoading(state))

\* loadUser of store/auth.ts with a token in localStorage
LoadUserStart ==
    /\ storeVariant = "auth_ts"
    /\ storage.access_token # Null
    /\ CanSend
    /\ StartOp("loadUser", beginLoading(state))

\* loadUser of store/auth.ts without one: returns before any await
LoadUserNoToken ==
    /\ storeVariant = "auth_ts"
    /\ storage.access_token = Null
    /\ state' = loadUserNoToken(state)
    /\ last' = Step("loadUser", "sync", NoReq, NoOutcome, "void")
    /\ trace' = Publish(listeners)
    /\ UNCHANGED <<storeVariant, apiVariant, callbacks, listeners, token, storage, inflight, nreq>>

\* loadUser of unnamed/part_001: no look at localStorage
LoadUserStart001 ==
    /\ storeVariant = "part_001"
    /\ CanSend
    /\ StartOp("loadUser", beginLoading(state))

\* a page calls an endpoint of apiClient directly (getPolls, vote, ...)
PollStart ==
    /\ CanSend
    /\ inflight' = Append(inflight, NewRequest("poll"))
    /\ nreq' = nreq + 1
    /\ last' = Step("poll", "start", NewRequest("poll"), NoOutcome, "void")
    /\ trace' = <<Ev("fetch")>>
    /\ UNCHANGED <<storeVariant, apiVariant, callbacks, state, listeners, token, storage>>

clearError ==
    /\ state' = clearErrorDone(state)
    /\ last' = Step("clearError", "sync", NoReq, NoOutcome, "void")
    /\ trace' = Publish(listeners)
    /\ UNCHANGED <<storeVariant, apiVariant, callbacks, listeners, token, storage, inflight, nreq>>

\* ------------------------------------------------ operations: second half
\* a handler from the resolution of its HTTP call to its end: the rest of
\* request, the rest of the ApiClient method, the rest of the store action
Answered(i, kind) == i \in 1..Len(inflight) /\ inflight[i].kind = kind

SettleOp(i, o, kind, s1, c, ret) ==
    /\ state' = s1
    /\ token' = c.token
    /\ storage' = c.storage
    /\ inflight' = RemoveAt(inflight, i)
    /\ last' = Step(kind, "settle", inflight[i], o, ret)
    /\ trace' = c.log \o Publish(listeners)
    /\ UNCHANGED <<storeVariant, apiVariant, callbacks, listeners, nreq>>

\* a login that drops its answer when another operation has settled since
LoginSettleDroppingStale(i, o) ==
    /\ Answered(i, "login")
    /\ LET r == Request(apiVariant, o)
           c1 == AfterRequest(Client(token, storage), r)
           c2 == ApiLogin(c1, r)
       IN  SettleOp(i, o, "login",
                    IF state.isLoading THEN loginDone(state, r) ELSE state,
                    c2, Bool(loginReturn(r)))

LoginSettle(i, o) ==
    /\ Answered(i, "login")
    /\ LET r == Request(apiVariant, o)
           c1 == AfterRequest(Client(token, storage), r)
           c2 == ApiLogin(c1, r)
       IN  SettleOp(i, o, "login", loginDone(state, r), c2,
                    Bool(loginReturn(r)))

RegisterSettle(i, o) ==
    /\ Answered(i, "register")
    /\ LET r == Request(apiVariant, o)
           c1 == AfterRequest(Client(token, storage), r)
           c2 == ApiRegister(c1, r)
       IN  SettleOp(i, o, "register", registerDone(state, r), c2,
                    Bool(registerReturn(r)))

\* a logout that aborts the requests that are still in flight
LogoutSettleCancelling(i, o) ==
    /\ Answered(i, "logout")
    /\ LET r == Request(apiVariant, o)
           c1 == AfterRequest(Client(token, storage), r)
           c2 == ApiLogout(c1, r)
       IN  /\ state' = logoutDone(state)
           /\ token' = c2.token
           /\ storage' = c2.storage
           /\ inflight' = <<>>
           /\ last' = Step("logout", "settle", inflight[i], o, "void")
           /\ trace' = c2.log \o Publish(listeners)
           /\ UNCHANGED <<storeVariant, apiVariant, callbacks, listeners, nreq>>

LogoutSettle(i, o) ==
    /\ Answered(i, "logout")
    /\ LET r == Request(apiVariant, o)
           c1 == AfterRequest(Client(token, storage), r)
           c2 == ApiLogout(c1, r)
       IN  SettleOp(i, o, "logout", logoutDone(state), c2, "void")

LoadUserSettle(i, o) ==
    /\ Answered(i, "loadUser")
    /\ storeVariant = "auth_ts"
    /\ LET r == Request(apiVariant, o)
           c1 == AfterRequest(Client(token, storage), r)
           c2 == ApiPassThrough(c1, r)
           c3 == loadUserCleanup(c2, r)
       IN  SettleOp(i, o, "loadUser", loadUserDone(state, r), c3, "void")

LoadUserSettle001(i, o) ==
    /\ Answered(i, "loadUser")
    /\ storeVariant = "part_001"
    /\ LET r == Request(apiVariant, o)
           c1 == AfterRequest(Client(token, storage), r)
           c2 == ApiPassThrough(c1, r)
       IN  SettleOp(i, o, "loadUser", loadUserDone001(state, r), c2, "void")

UpdateProfileSettle(i, o) ==
    /\ Answered(i, "updateProfile")
    /\ LET r == Request(apiVariant, o)
           c1 == AfterRequest(Client(token, storage), r)
           c2 == ApiPassThrough(c1, r)
       IN  SettleOp(i, o, "updateProfile", updateProfileDone(state, r), c2,
                    Bool(updateProfileReturn(r)))

\* the page's own code after the await is outside the store and the client
PollSettle(i, o) ==
    /\ Answered(i, "poll")
    /\ LET r == Request(apiVariant, o)
           c1 == AfterRequest(Client(token, storage), r)
           c2 == ApiPassThrough(c1, r)
       IN  /\ token' = c2.token
           /\ storage' = c2.storage
           /\ inflight' = RemoveAt(inflight, i)
           /\ last' = Step("poll", "settle", inflight[i], o, "void")
           /\ trace' = c2.log
           /\ UNCHANGED <<storeVariant, apiVariant, callbacks, state, listeners, nreq>>

\* ----------------------------------------------------------------- Next
Next ==
    \/ \E l \in Listeners : Subscribe(l)
    \/ \E l \in Listeners : Unsubscribe(l)
    \/ LoginStart
    \/ RegisterStart
    \/ LogoutStart
    \/ LoadUserStart
    \/ LoadUserNoToken
    \/ LoadUserStart001
    \/ UpdateProfileStart
    \/ PollStart
    \/ clearError
    \/ \E i \in 1..MaxInFlight, o \in Outcomes : LoginSettle(i, o)
    \/ \E i \in 1..MaxInFlight, o \in Outcomes : RegisterSettle(i, o)
    \/ \E i \in 1..MaxInFlight, o \in Outcomes : LogoutSettle(i, o)
    \/ \E i \in 1..MaxInFlight, o \in Outcomes : LoadUserSettle(i, o)
    \/ \E i \in 1..MaxInFlight, o \in Outcomes : LoadUserSettle001(i, o)
    \/ \E i \in 1..MaxInFlight, o \in Outcomes : UpdateProfileSettle(i, o)
    \/ \E i \in 1..MaxInFlight, o \in Outcomes : PollSettle(i, o)

Spec == Init /\ [][Next]_vars

TypeOK ==
    /\ storeVariant \in StoreVariants
    /\ apiVariant \in ApiVariants
    /\ state.user \in Users \cup {Null}
    /\ state.isAuthenticated \in BOOLEAN
    /\ state.isLoading \in BOOLEAN
    /\ token \in Tokens \cup {Null}
    /\ storage.access_token \in Tokens \cup {Null}
    /\ Len(inflight) <= MaxInFlight
    /\ nreq \in 0..MaxRequests

\* =============================================================== claims
StoreInFlight == {i \in 1..Len(inflight) : inflight[i].kind \in StoreOps}
Settled(op) == last.op = op /\ last.step = "settle"
Assigns == {i \in 1..Len(trace) : trace[i].e = "assign"}
Fetches == {i \in 1..Len(trace) : trace[i].e = "fetch"}

\* C1: in every settled state (isLoading false) isAuthenticated is true
\* exactly when user is non-null.
C1_AuthenticatedIffUser ==
    ~state.isLoading => (state.isAuthenticated <=> state.user # Null)

\* C2: when logout settles, user is null, isAuthenticated false, error null
\* and isLoading false, whatever the logout endpoint answered.
C2_LogoutSettlesLoggedOut ==
    Settled("logout") =>
        /\ state.user = Null
        /\ ~state.isAuthenticated
        /\ state.error = Null
        /\ ~state.isLoading

\* a logout whose request failed in transport settles while another request
\* is still in flight
C2_Witness ==
    /\ Settled("logout")
    /\ last.out.kind = "fetch_typeerror"
    /\ Len(inflight) = 1
    /\ state.user = Null

\* C3: after a register whose response carries a user and tokens, the access
\* token of the response is held by the client and stored under access_token.
C3_RegisterStoresToken ==
    (/\ Settled("register")
     /\ last.out.status = 200
     /\ last.out.body.user # Null
     /\ last.out.body.access # Null)
    => (token = last.out.body.access /\ storage.access_token = last.out.body.access)

\* C4: a 401 answer to any endpoint method leaves no token in memory and none
\* in durable storage when the request primitive has returned.
C4_Any401ClearsToken ==
    (last.step = "settle" /\ last.out.kind = "http" /\ last.out.status = 401)
    => (token = Null /\ storage.access_token = Null)

\* C5: loadUser called while durable storage holds no access_token issues no
\* request and ends with user null, isAuthenticated false, isLoading false,
\* after one notification of the subscribers.
C5_LoadUserWithoutToken ==
    (/\ last.op = "loadUser"
     /\ \/ last.step = "sync"
        \/ last.step = "start" /\ last.req.stored = Null)
    => /\ last.step = "sync"
       /\ Fetches = {}
       /\ state.user = Null
       /\ ~state.isAuthenticated
       /\ ~state.isLoading
       /\ trace = Publish(listeners)

\* C6: loadUser called with a stored token and answered with 401 ends with the
\* stored token removed and isAuthenticated false.
C6_LoadUser401RemovesToken ==
    (/\ Settled("loadUser")
     /\ last.req.stored # Null
     /\ last.out.kind = "http"
     /\ last.out.status = 401)
    => (storage.access_token = Null /\ ~state.isAuthenticated)

\* C7: after a call that carried the token is answered with 401 the client
\* holds no token, and a loadUser issued next makes no network call and
\* leaves the session unauthenticated.
C7_After401 ==
    /\ last.step = "settle"
    /\ last.req.auth # Null
    /\ last.out.kind = "http"
    /\ last.out.status = 401

C7_After401LoadUserIsLocal ==
    /\ [](C7_After401 => token = Null)
    /\ [][(C7_After401 /\ last'.op = "loadUser" /\ last'.step \in {"start", "sync"})
            => (nreq' = nreq /\ inflight' = inflight /\ ~state'.isAuthenticated)]_vars

\* C8: whenever no Session Store operation is in flight, isLoading is false.
C8_IdleIsNotLoading ==
    StoreInFlight = {} => ~state.isLoading

\* two store operations have been started and both have settled, the last one
\* failing
C8_Witness ==
    /\ inflight = <<>>
    /\ nreq >= 2
    /\ last.step = "settle"
    /\ last.op \in StoreOps
    /\ last.ret = "false"
    /\ ~state.isLoading

\* C9 as claimed: whenever at least one Session Store operation is in flight,
\* isLoading is true.
C9_InFlightIsLoading ==
    StoreInFlight # {} => state.isLoading

\* C9 amended: isLoading is true right after a Session Store operation has
\* started, and it turns false only in a step in which an operation settles
\* or loadUser returns for lack of a token.
C9_LoadingFromStartToFirstSettle ==
    /\ []((last.step = "start" /\ last.op \in StoreOps) => state.isLoading)
    /\ [][(state.isLoading /\ ~state'.isLoading)
            => (last'.op \in StoreOps /\ last'.step \in {"settle", "sync"})]_vars

\* two operations overlap, the second has just started
C9_Witness ==
    /\ Cardinality(StoreInFlight) = 2
    /\ last.step = "start"
    /\ state.isLoading

\* C10: every assignment to the snapshot is followed, before any other
\* assignment, by exactly one invocation of each subscribed observer, in the
\* order of subscription.
C10_AssignThenNotifyInOrder ==
    \A i \in Assigns :
        LET n == Len(listeners) IN
        /\ i + n <= Len(trace)
        /\ \A k \in 1..n : trace[i + k] = [e |-> "call", l |-> listeners[k]]
        /\ i + n + 1 <= Len(trace) => trace[i + n + 1].e # "call"

\* an operation settles while two observers are subscribed, the one that
\* subscribed first having the larger identity
C10_Witness ==
    /\ Assigns # {}
    /\ last.step = "settle"
    /\ listeners = <<2, 1>>


\* ------------------------------------------- notification with callbacks
\* The Set of listeners in any order of subscription, each listener with
\* any behaviour; the rest as after a page load of store/auth.ts.
Range(q) == {q[i] : i \in 1..Len(q)}
DistinctSeqs(S) ==
    UNION {{q \in [1..n -> S] : \A i, j \in 1..n : i # j => q[i] # q[j]} :
              n \in 0..Cardinality(S)}

InitNotify ==
    /\ storeVariant = "auth_ts"
    /\ apiVariant = "api_ts"
    /\ state = [user |-> Null, isAuthenticated |-> FALSE, isLoading |-> FALSE, error |-> Null]
    /\ listeners \in DistinctSeqs(ListenerIds)
    /\ callbacks \in [ListenerIds -> Behaviours]
    /\ storage = [access_token |-> Null, refresh_token |-> Null]
    /\ token = Null
    /\ inflight = <<>>
    /\ nreq = 0
    /\ last = Step("none", "init", NoReq, NoOutcome, "void")
    /\ trace = <<>>

\* clearError with listeners that change the Set while notify walks it
clearErrorNotifying ==
    /\ state' = clearErrorDone(state)
    /\ LET pass == forEach(listeners, callbacks)
       IN  /\ listeners' = pass.set
           /\ trace' = <<Ev("assign")>> \o pass.calls
    /\ last' = Step("clearError", "sync", NoReq, NoOutcome, "void")
    /\ UNCHANGED <<storeVariant, apiVariant, callbacks, token, storage, inflight, nreq>>

NextNotify == clearErrorNotifying

SpecNotify == InitNotify /\ [][NextNotify]_vars

\* the listeners invoked in a pass, and the listeners that the invoked
\* callbacks subscribed or unsubscribed
Calls(t) == {i \in 1..Len(t) : t[i].e = "call"}
Invoked(t) == {t[i].l : i \in Calls(t)}
Touched(t, cbs) == {cbs[l].target : l \in Invoked(t)}
TimesInvoked(o, t) == Cardinality({i \in Calls(t) : t[i].l = o})

Actors(t, cbs) == {l \in Invoked(t) : cbs[l] # Render}

Is2xx(o) == o.kind = "http" /\ o.status \in 200..299
Rejected(o) == o.kind = "http" /\ o.status \notin 200..299
SetTokens == {i \in 1..Len(trace) : trace[i].e = "setToken"}

\* C12: whatever the HTTP call did (2xx, non-2xx, unparsable body, transport
\* exception) the request primitive resolves to a result that carries
\* exactly one of data and error, data for a 2xx answer only, and the error
\* is a non-empty message.
C12_ResultIsTagged ==
    last.step = "settle" =>
        LET r == Request(apiVariant, last.out)
        IN  /\ r.hasData <=> Is2xx(last.out)
            /\ r.hasData <=> r.error = Null
            /\ r.error # ""

\* a request whose body could not be parsed, or whose fetch was rejected,
\* has resolved to an error result
C12_Witness ==
    /\ last.step = "settle"
    /\ last.out.kind \in {"fetch_typeerror", "json_error"}
    /\ ~Request(apiVariant, last.out).hasData
    /\ last.ret = "false"

\* C13: a login answered with a user and tokens settles with that user,
\* isAuthenticated true, error null, isLoading false, the access token of
\* the answer in localStorage, and returns true.
C13_LoginSuccess ==
    (/\ Settled("login")
     /\ Is2xx(last.out)
     /\ last.out.body.user # Null
     /\ last.out.body.access # Null)
    => /\ state.user = last.out.body.user
       /\ state.isAuthenticated
       /\ state.error = Null
       /\ ~state.isLoading
       /\ storage.access_token = last.out.body.access
       /\ last.ret = "true"

\* such a login has settled, and the token in localStorage is new
C13_Witness ==
    /\ Settled("login")
    /\ Is2xx(last.out)
    /\ last.out.body.user # Null
    /\ last.out.body.access # Null
    /\ last.req.stored # last.out.body.access
    /\ state.isAuthenticated

\* the first request of the page is a login
FirstLogin == Settled("login") /\ nreq = 1

ServerMessage(o) == Or(o.body.message, o.body.error)

\* C14 as claimed: a rejected login from the initial session settles with
\* isAuthenticated false, error equal to the message of the response, or
\* 'Login failed' without one, isLoading false, and returns false.
C14_RejectedLoginShowsMessage ==
    (FirstLogin /\ Rejected(last.out))
    => /\ ~state.isAuthenticated
       /\ state.error = Or(ServerMessage(last.out), "Login failed")
       /\ ~state.isLoading
       /\ last.ret = "false"

\* the message the request primitive of client v makes of a non-2xx answer
RejectionMessage(v, o) ==
    IF v = "api_ts"
    THEN Or(ServerMessage(o), "An error occurred")
    ELSE CASE o.status = 401 -> "Authentication expired. Please log in again."
           [] o.status >= 500 -> "Server error. Please try again later."
           [] o.status = 404 -> "Endpoint not found."
           [] OTHER -> Or(ServerMessage(o), Or(o.body.detail, StatusText(o.status)))

\* C14 amended: a rejected login from the initial session settles with
\* isAuthenticated false, isLoading false, returns false, and error is the
\* message of the request primitive: the message (else error) field of the
\* response and a default of the primitive without one; the client of
\* lib/validations.ts reads the detail field too and answers 401, 5xx and
\* 404 with fixed texts in place of the server's message.
C14_RejectedLoginShowsRequestMessage ==
    (FirstLogin /\ Rejected(last.out))
    => /\ ~state.isAuthenticated
       /\ state.error = RejectionMessage(apiVariant, last.out)
       /\ state.error # "Login failed"
       /\ ~state.isLoading
       /\ last.ret = "false"

\* a first login was rejected with 400 and a body without any message
C14_Witness ==
    /\ FirstLogin
    /\ Rejected(last.out)
    /\ last.out.status = 400
    /\ last.out.body = NoBody
    /\ state.error \in {"An error occurred", "Request failed with status 400"}

\* C15: when a login answered with a user and tokens is published, setToken
\* has already run: it comes before the assignment of the authenticated
\* snapshot, and the token is in memory and in localStorage when the
\* listeners are called.
C15_TokenStoredBeforeAuthenticated ==
    (/\ Settled("login")
     /\ state.isAuthenticated
     /\ Is2xx(last.out)
     /\ last.out.body.user # Null
     /\ last.out.body.access # Null)
    => /\ \E i \in SetTokens : \A j \in Assigns \cup Calls(trace) : i < j
       /\ token = last.out.body.access
       /\ storage.access_token = last.out.body.access

\* a login from a page without a token was published to a listener
C15_Witness ==
    /\ Settled("login")
    /\ last.req.auth = Null
    /\ last.req.stored = Null
    /\ state.isAuthenticated
    /\ token # Null
    /\ Calls(trace) # {}
    /\ SetTokens # {}

\* C16: when logout settles, apiClient.token is null and localStorage holds
\* no access_token, whatever the answer of the logout endpoint was.
C16_LogoutDestroysToken ==
    Settled("logout") => token = Null /\ storage.access_token = Null

\* a logout sent with a token was refused or never answered
C16_Witness ==
    /\ Settled("logout")
    /\ last.req.auth # Null
    /\ ~Is2xx(last.out)
    /\ token = Null

\* C17 as claimed: a loadUser sent with a stored token whose fetch fails
\* (non-2xx answer or transport error) settles with access_token and
\* refresh_token removed from localStorage, user null and isAuthenticated
\* false.
C17_FailedLoadUserDestroysToken ==
    (Settled("loadUser") /\ last.req.stored # Null /\ ~Is2xx(last.out))
    => /\ storage.access_token = Null
       /\ storage.refresh_token = Null
       /\ state.user = Null
       /\ ~state.isAuthenticated

\* the Credential Token has just been destroyed according to its lifecycle:
\* logout has settled, a request was answered 401, or a loadUser sent with
\* a stored token has failed
Destroyed ==
    /\ last.step = "settle"
    /\ \/ last.op = "logout"
       \/ last.out.kind = "http" /\ last.out.status = 401
       \/ last.op = "loadUser" /\ last.req.stored # Null /\ ~Is2xx(last.out)

\* C18 as claimed: a request carries Authorization: Bearer <token> exactly
\* when the Credential Token is present, with that token, and the request
\* issued right after the token was destroyed carries no token.
C18_RequestsCarryLiveToken ==
    [][last'.step = "start" =>
          /\ last'.req.auth = last'.req.stored
          /\ Destroyed => last'.req.auth = Null]_vars

\* ---- the store with one mounted component, every request answered
\* one answer of each kind the continuations tell apart
LiveOutcomes ==
    {o \in Outcomes :
        \/ o.kind # "http"
        \/ o.status \notin 200..299 /\ o.body = NoBody
        \/ o.status \in 200..299 /\ (o.body.user = Null <=> o.body.access = Null)}

InitLive ==
    /\ storeVariant \in StoreVariants
    /\ apiVariant \in ApiVariants
    /\ state = [user |-> Null, isAuthenticated |-> FALSE, isLoading |-> FALSE, error |-> Null]
    /\ listeners = <<1>>
    /\ storage \in {[access_token |-> Null, refresh_token |-> Null],
                    [access_token |-> "tok1", refresh_token |-> "ref1"]}
    /\ token = storage.access_token
    /\ inflight = <<>>
    /\ nreq = 0
    /\ last = Step("none", "init", NoReq, NoOutcome, "void")
    /\ trace = <<>>
    /\ callbacks = [l \in ListenerIds |-> Render]

\* the browser delivers the answer of a request of the store that is in
\* flight: the continuation of the awaiting operation runs
Deliver ==
    \E i \in 1..MaxInFlight, o \in LiveOutcomes :
        \/ LoginSettle(i, o)
        \/ RegisterSettle(i, o)
        \/ LogoutSettle(i, o)
        \/ LoadUserSettle(i, o)
        \/ LoadUserSettle001(i, o)
        \/ UpdateProfileSettle(i, o)

NextLive ==
    \/ LoginStart
    \/ RegisterStart
    \/ LogoutStart
    \/ LoadUserStart
    \/ LoadUserNoToken
    \/ LoadUserStart001
    \/ UpdateProfileStart
    \/ clearError
    \/ \E i \in 1..MaxInFlight, o \in LiveOutcomes : LoginSettle(i, o)
    \/ \E i \in 1..MaxInFlight, o \in LiveOutcomes : RegisterSettle(i, o)
    \/ \E i \in 1..MaxInFlight, o \in LiveOutcomes : LogoutSettle(i, o)
    \/ \E i \in 1..MaxInFlight, o \in LiveOutcomes : LoadUserSettle(i, o)
    \/ \E i \in 1..MaxInFlight, o \in LiveOutcomes : LoadUserSettle001(i, o)
    \/ \E i \in 1..MaxInFlight, o \in LiveOutcomes : UpdateProfileSettle(i, o)

\* every request that was issued is answered or fails, and the event loop
\* then runs the continuation of its await
SpecLive == InitLive /\ [][NextLive]_vars /\ WF_vars(Deliver)

PublishedLast ==
    LET n == Len(Publish(listeners))
    IN  /\ Len(trace) >= n
        /\ SubSeq(trace, Len(trace) - n + 1, Len(trace)) = Publish(listeners)

\* C19: when every request is answered, every operation of the store that
\* was started settles, and each one ends by setting isLoading to false
\* and notifying the listeners, on success and on every failure.
C19_EveryOperationSettles ==
    /\ [](last.op \in StoreOps /\ last.step \in {"settle", "sync"}
             => ~state.isLoading /\ PublishedLast)
    /\ \A op \in StoreOps :
          (\E i \in 1..Len(inflight) : inflight[i].kind = op)
              ~> (Settled(op) /\ ~state.isLoading /\ PublishedLast)

\* a loadUser sent with a token has failed and has told a listener
C19_Witness ==
    /\ Settled("loadUser")
    /\ last.req.stored # Null
    /\ ~Is2xx(last.out)
    /\ ~state.isLoading
    /\ Calls(trace) # {}
    /\ PublishedLast

Accepted(o) == Is2xx(o) /\ o.body.user # Null

\* C20: an updateProfile that the server accepts settles with the user of
\* the answer, error null, isLoading false, and returns true; one that
\* fails settles with error non-null, user as it was, isLoading false, and
\* returns false.
C20_UpdateProfileOutcome ==
    [][(last'.op = "updateProfile" /\ last'.step = "settle") =>
          IF Accepted(last'.out)
          THEN /\ state'.user = last'.out.body.user
               /\ state'.error = Null
               /\ ~state'.isLoading
               /\ last'.ret = "true"
          ELSE /\ state'.error # Null
               /\ state'.user = state.user
               /\ ~state'.isLoading
               /\ last'.ret = "false"]_vars

\* an updateProfile of a logged-in user has failed
C20_Witness ==
    /\ Settled("updateProfile")
    /\ ~Accepted(last.out)
    /\ last.ret = "false"
    /\ state.user # Null
    /\ state.error # Null

\* ------------------------------------------------------------ C21 - C30
Returning == {"login", "register", "updateProfile"}

\* C21: every operation of the store returns, none throws; when login,
\* register or updateProfile returns false the error of the snapshot is
\* non-null, and when one of them returns true it is null.
C21_ReturnAgreesWithError ==
    (last.op \in StoreOps /\ last.step \in {"settle", "sync"})
    => IF last.op \in Returning
       THEN /\ last.ret \in {"true", "false"}
            /\ last.ret = "false" => state.error # Null
            /\ last.ret = "true" => state.error = Null
       ELSE last.ret = "void"

\* a register whose fetch was rejected has returned false with an error
C21_Witness ==
    /\ Settled("register")
    /\ last.out.kind = "fetch_typeerror"
    /\ last.ret = "false"
    /\ state.error # Null

\* C22 as claimed: right after the first state update of login, register,
\* logout, loadUser and updateProfile, error is null.
C22_ErrorClearedAtStart ==
    (last.op \in StoreOps /\ last.step \in {"start", "sync"}) => state.error = Null

\* C22 amended: the first state update of login, register and updateProfile
\* leaves error null; the first state update of logout and of loadUser
\* leaves error as it was.
C22_ErrorClearedAtStartOfThree ==
    [][(last'.op \in StoreOps /\ last'.step \in {"start", "sync"}) =>
          IF last'.op \in Returning
          THEN state'.error = Null
          ELSE state'.error = state.error]_vars

\* a logout was started while the error of an earlier operation was shown,
\* and the error is still there after its first state update
C22_Witness ==
    /\ last.op = "logout"
    /\ last.step = "start"
    /\ state.error # Null
    /\ state.isLoading

\* C23: after clearError the error of the snapshot is null whatever the
\* state was, and clearError sends no request.
C23_ClearErrorClears ==
    [][last'.op = "clearError" =>
          /\ state'.error = Null
          /\ nreq' = nreq
          /\ inflight' = inflight
          /\ \A i \in 1..Len(trace') : trace'[i].e # "fetch"]_vars

\* clearError was called while an operation was in flight
C23_Witness ==
    /\ last.op = "clearError"
    /\ last.step = "sync"
    /\ state.error = Null
    /\ state.isLoading
    /\ inflight # <<>>

\* the snapshot of a page that has just been loaded
InitialState ==
    [user |-> Null, isAuthenticated |-> FALSE, isLoading |-> FALSE, error |-> Null]

\* what one login answered with o makes of the initial session
Alone(v, o) == loginDone(beginClearingError(InitialState), Request(v, o))
LoginOk(v, o) == loginReturn(Request(v, o))

\* the two requests of the page so far are logins, the first has just been
\* answered while the second was in flight, the second is answered now
SecondOfTwoLoginsSettles ==
    /\ nreq = 2
    /\ Settled("login")
    /\ Len(inflight) = 1
    /\ inflight[1].kind = "login"
    /\ last'.op = "login"
    /\ last'.step = "settle"

\* C24 as claimed: with two logins in flight at once, the snapshot after
\* both have settled is the one the login answered last would have produced
\* alone, whatever the two answers were.
C24_LastLoginAlone ==
    [][SecondOfTwoLoginsSettles => state' = Alone(apiVariant, last'.out)]_vars

\* C24 amended: the snapshot after both have settled is the one the login
\* answered last would have produced alone, except when the first answer
\* was a success and the last a failure: then user and isAuthenticated are
\* those of the first login, error is that of the last, isLoading false.
C24_LastLoginWritesItsFields ==
    [][SecondOfTwoLoginsSettles =>
          state' = IF LoginOk(apiVariant, last.out) /\ ~LoginOk(apiVariant, last'.out)
                   THEN [Alone(apiVariant, last.out) EXCEPT
                            !.error = Alone(apiVariant, last'.out).error]
                   ELSE Alone(apiVariant, last'.out)]_vars

\* two logins from a page without a token: the one answered first logged
\* in and stored its token, the one answered last failed
C24_Witness ==
    /\ Settled("login")
    /\ nreq = 2
    /\ inflight = <<>>
    /\ last.req.auth = Null
    /\ last.req.stored = Null
    /\ token \in IssuedTokens
    /\ last.ret = "false"
    /\ state.isAuthenticated
    /\ state.error # Null

\* C25: no step aborts a request in flight: a request stays in flight until
\* its own answer arrives; and an accepted answer to login or loadUser makes
\* the session authenticated as the answer's user whatever has happened
\* since the operation started, a logout that settled meanwhile included.
C25_NeverCancelled ==
    [][/\ Len(inflight') >= Len(inflight) - 1
       /\ last'.step # "settle" =>
             /\ Len(inflight') >= Len(inflight)
             /\ SubSeq(inflight', 1, Len(inflight)) = inflight
       /\ (last'.step = "settle" /\ last'.op \in {"login", "loadUser"}
              /\ Accepted(last'.out)) =>
             /\ state'.isAuthenticated
             /\ state'.user = last'.out.body.user]_vars

\* a login sent with a token was answered after a logout had settled (the
\* client of lib/api.ts loses its token in logout only): the session is
\* authenticated again
C25_Witness ==
    /\ apiVariant = "api_ts"
    /\ Settled("login")
    /\ nreq = 2
    /\ inflight = <<>>
    /\ last.req.auth # Null
    /\ token = Null
    /\ state.isAuthenticated
    /\ state.user = last.out.body.user

\* ---- the token of the ApiClient and localStorage, method by method
TokenCall(e, t) == [e |-> e, t |-> t]

\* a page load in a browser: the constructor has read localStorage
InitToken ==
    /\ storeVariant = "auth_ts"
    /\ apiVariant \in ApiVariants
    /\ state = [user |-> Null, isAuthenticated |-> FALSE, isLoading |-> FALSE, error |-> Null]
    /\ listeners = <<>>
    /\ callbacks = [l \in ListenerIds |-> Render]
    /\ storage \in [access_token : Tokens \cup {Null}, refresh_token : {Null, "ref1"}]
    /\ token = storage.access_token
    /\ inflight = <<>>
    /\ nreq = 0
    /\ last = Step("none", "init", NoReq, NoOutcome, "void")
    /\ trace = <<>>

CanCall == Len(trace) < MaxOps

TokenStep(e, t, c) ==
    /\ token' = c.token
    /\ storage' = c.storage
    /\ trace' = Append(trace, TokenCall(e, t))
    /\ last' = Step(e, "sync", NoReq, NoOutcome, "void")
    /\ UNCHANGED <<storeVariant, apiVariant, callbacks, state, listeners, inflight, nreq>>

\* apiClient.setToken(t)
SetTokenCall(t) ==
    /\ CanCall
    /\ TokenStep("setToken", t, setToken(Client(token, storage), t))

\* apiClient.clearToken()
ClearTokenCall ==
    /\ CanCall
    /\ TokenStep("clearToken", Null, clearToken(Client(token, storage)))

\* the two localStorage.removeItem calls of loadUser's failure branches
RemoveItems ==
    /\ CanCall
    /\ TokenStep("removeItem", Null,
                 loadUserCleanup(Client(token, storage), ErrorResult("failed", FALSE)))

\* the page is loaded again: new ApiClient(API_BASE_URL)
Construct ==
    /\ CanCall
    /\ TokenStep("construct", Null, Client(storage.access_token, storage))

NextToken ==
    \/ \E t \in Tokens : SetTokenCall(t)
    \/ ClearTokenCall
    \/ RemoveItems
    \/ Construct

SpecToken == InitToken /\ [][NextToken]_vars

LastCall == trace[Len(trace)]

\* C26: in a browser setToken(t) leaves apiClient.token and the
\* access_token of localStorage equal to t, clearToken() leaves both
\* absent, a client constructed afterwards starts with the token that
\* localStorage holds, and setToken followed by clearToken ends without a
\* token.
C26_TokenMethods ==
    trace # <<>> =>
        /\ LastCall.e = "setToken" =>
              token = LastCall.t /\ storage.access_token = LastCall.t
        /\ LastCall.e = "clearToken" =>
              token = Null /\ storage.access_token = Null
        /\ LastCall.e = "construct" => token = storage.access_token
        /\ (Len(trace) >= 2 /\ trace[Len(trace) - 1].e = "setToken"
               /\ LastCall.e = "clearToken") =>
              token = Null /\ storage.access_token = Null

\* setToken, then clearToken, then a new client: no token anywhere
C26_Witness ==
    /\ Len(trace) = 3
    /\ trace[1].e = "setToken"
    /\ trace[2].e = "clearToken"
    /\ trace[3].e = "construct"
    /\ token = Null
    /\ storage.access_token = Null

\* C27 as claimed: in a browser, after any sequence of operations of the
\* store and of the client, apiClient.token equals the access_token of
\* localStorage, both absent or both the same string.
C27_MemoryEqualsStorage == token = storage.access_token

\* C28 as claimed: in every settled state in which the session is
\* authenticated (isAuthenticated true, isLoading false) the ApiClient
\* holds a token.
C28_AuthenticatedHasToken ==
    (state.isAuthenticated /\ ~state.isLoading) => token # Null

\* C29: a login or register that fails leaves user and isAuthenticated as
\* they were right before it settled; error becomes non-null and isLoading
\* false.
C29_FailureKeepsSession ==
    [][(last'.step = "settle" /\ last'.op \in {"login", "register"}
           /\ last'.ret = "false") =>
          /\ state'.user = state.user
          /\ state'.isAuthenticated = state.isAuthenticated
          /\ state'.error # Null
          /\ ~state'.isLoading]_vars

\* a register was refused while a user was logged in: the user still is
C29_Witness ==
    /\ Settled("register")
    /\ last.ret = "false"
    /\ Rejected(last.out)
    /\ state.isAuthenticated
    /\ state.user # Null
    /\ state.error # Null

\* C30: clearError changes nothing but error: user, isAuthenticated,
\* isLoading, the token (memory and localStorage), the listeners and the
\* requests in flight are after it what they were before, with or without
\* an operation in flight.
C30_ClearErrorFrame ==
    [][last'.op = "clearError" =>
          /\ state' = [state EXCEPT !.error = state'.error]
          /\ token' = token
          /\ storage' = storage
          /\ listeners' = listeners
          /\ inflight' = inflight]_vars

\* clearError was called with a user logged in, a component mounted and a
\* request in flight
C30_Witness ==
    /\ last.op = "clearError"
    /\ state.user # Null
    /\ state.isAuthenticated
    /\ state.isLoading
    /\ inflight # <<>>
    /\ listeners # <<>>
    /\ Calls(trace) # {}

====
